---- MODULE Spec2Model ----
(***************************************************************************)
(* The REST layer of the coding tutor (express handlers over a             *)
(* better-sqlite3 database file): the course catalog, the step_progress    *)
(* table with the derived course progress, and the settings singleton.     *)
(* Every handler is synchronous, so one request is one atomic action.      *)
(* A handler that throws leaves the rows written before the throw in the   *)
(* store (no transaction is opened) and express answers 500.               *)
(*                                                                         *)
(* The browser side follows further down: the code runner of the lesson    *)
(* view (CodeIDE) and the instructor panel with its two voice backends.    *)
(* There a handler runs atomically up to its next await; what it reads     *)
(* after the await from its closure is the value of the render in which    *)
(* the handler was created.                                                *)
(***************************************************************************)
EXTENDS Integers, Sequences, FiniteSets, TLC

VARIABLES
    courses,        \* table courses, rows in rowid order
    modules,        \* table modules, rows in rowid order
    lessons,        \* table lessons, rows in rowid order
    step_progress,  \* table step_progress, rows in rowid order
    settings,       \* table settings, rows in rowid order
    now,            \* Date.now() of the server process
    req,            \* the request handled last
    resp,           \* the response sent to it
    nreq,           \* number of requests handled (where a specification counts them)
    recorded,       \* pairs a scripted client has posted as completed
    language,       \* CodeIDE: lesson.language of the lesson on screen
    output,         \* CodeIDE: the console output state
    isRunning,      \* CodeIDE: the Run Code button is disabled while TRUE
    pyodide,        \* CodeIDE: the interpreter state, "null" until a load succeeded
    loads,          \* CodeIDE: loadPyodide calls waiting for the runtime
    runs,           \* CodeIDE: runCode calls waiting at an await
    nruns,          \* CodeIDE: number of runCode calls so far
    active,         \* App: <<currentLessonId, currentStep>>
    userCode,       \* App: the editor buffer
    voiceEnabled,   \* App: the voice setting read at start-up
    messages,       \* InstructorPanel: the transcript
    isLoading,      \* InstructorPanel: a turn request is awaited
    voiceType,      \* InstructorPanel: the voice backend, "ai" or "local"
    showVoiceToast, \* InstructorPanel: the fallback notice is on screen
    notices,        \* number of times the fallback notice was put on screen
    turns,          \* getInstructorResponse calls in flight
    speech,         \* generateSpeech calls in flight
    synth,          \* utterances window.speechSynthesis is speaking
    source,         \* PCM buffer sources that are playing
    nturns,         \* number of getInstructorResponse calls so far
    isSpeaking,     \* InstructorPanel: the isSpeaking state
    speakingMessageId, \* InstructorPanel: the speakingMessageId state, {} for null
    ended,          \* utterances of stopped buffer sources whose onended has not run yet
    calls,          \* App: handleStepChange calls waiting for their requests
    ncalls,         \* App: number of handleStepChange calls that sent a request
    viewCourses,    \* App: the courses state
    viewProgress,   \* App: the stepProgress state
    retry           \* gemini service: the withRetry call under way

server == <<courses, modules, lessons, step_progress, settings, now, req, resp, nreq, recorded>>

runner == <<language, output, isRunning, pyodide, loads, runs, nruns>>

panel == <<active, userCode, voiceEnabled, messages, isLoading, voiceType, showVoiceToast,
           notices, turns, speech, synth, source, nturns, isSpeaking, speakingMessageId,
           ended>>

app == <<calls, ncalls, viewCourses, viewProgress>>

client == <<runner, panel, app, retry>>

vars == <<server, client>>

store == <<courses, modules, lessons, step_progress, settings>>

(***************************************************************************)
(* Bounds and input domains.                                               *)
(***************************************************************************)
\* the JavaScript value undefined (a field the request body does not have)
Undefined == "<undefined>"

MaxRequests == 4

\* Date.now() runs from 1000 to MaxNow in the model
MaxNow == 1001

StepsPerLesson == 5

steps == <<"explanation", "example", "guided", "independent", "feedback">>

NamedSteps == {steps[i] : i \in 1..Len(steps)}

\* a step id outside the five stages: POST /api/progress takes any text
StepInputs == NamedSteps \cup {"extra"}

StatusInputs == {"completed", "not_started"}

\* the seeded lessons and one id that is in no course
LessonInputs == {"l1", "l2", "l3", "lx"}

\* theme as the client sends it, or a body without theme
ThemeInputs == {"dark", "light", "system", Undefined}

\* voice_enabled as JSON text: true, false, 1, 0, or a body without it
VoiceInputs == {"true", "false", "1", "0", Undefined}

\* the truthiness JavaScript's ?: gives these values
Truthy(v) == v \in {"true", "1"}

NoRequest == [op |-> "none"]

NoResponse == [status |-> 0]

Error500 == [status |-> 500]

(***************************************************************************)
(* The seed written when the courses table is empty at start-up.           *)
(***************************************************************************)
SeedCourses ==
    << [id |-> "c1", title |-> "Web Development Fundamentals"],
       [id |-> "c2", title |-> "Python for Beginners"] >>

SeedModules ==
    << [id |-> "m1", course_id |-> "c1", title |-> "HTML Basics"],
       [id |-> "m2", course_id |-> "c1", title |-> "CSS Styling"],
       [id |-> "m3", course_id |-> "c2", title |-> "Python Basics"] >>

SeedLessons ==
    << [id |-> "l1", module_id |-> "m1", title |-> "What is HTML?", language |-> "html"],
       [id |-> "l2", module_id |-> "m2", title |-> "CSS Selectors", language |-> "css"],
       [id |-> "l3", module_id |-> "m3", title |-> "Variables and Types", language |-> "python"] >>

(***************************************************************************)
(* better-sqlite3: a statement run with another number of values than it   *)
(* has placeholders throws a RangeError before it touches the database.    *)
(***************************************************************************)
BindThrows(nparams, args) == Len(args) # nparams

Range(s) == {s[i] : i \in 1..Len(s)}

\* SELECT ... WHERE lesson_id = ? AND step_id = ?
SelectStep(T, args) ==
    SelectSeq(T, LAMBDA r : r.lesson_id = args[1] /\ r.step_id = args[2])

\* UNIQUE(lesson_id, step_id)
StepUniqueViolated(T, l, s) ==
    \E i \in 1..Len(T) : T[i].lesson_id = l /\ T[i].step_id = s

\* INSERT INTO step_progress (lesson_id, step_id, status); id is AUTOINCREMENT
InsertStep(T, l, s, st) ==
    IF StepUniqueViolated(T, l, s)
    THEN [threw |-> TRUE, table |-> T]
    ELSE [threw |-> FALSE,
          table |-> Append(T, [id |-> Len(T) + 1, lesson_id |-> l, step_id |-> s, status |-> st])]

\* UPDATE step_progress SET status = ? WHERE lesson_id = ? AND step_id = ?
UpdateStep(T, l, s, st) ==
    [i \in 1..Len(T) |->
        IF T[i].lesson_id = l /\ T[i].step_id = s
        THEN [T[i] EXCEPT !.status = st]
        ELSE T[i]]

\* the values the handler hands to the lookup statement's get()
ExistingArgs(l, s) == <<>>

recordStepAppend(T, l, s, st) ==
    [threw |-> FALSE,
     table |-> Append(T, [id |-> Len(T) + 1, lesson_id |-> l, step_id |-> s, status |-> st])]

\* the store effect of POST /api/progress
recordStep(T, l, s, st) ==
    IF BindThrows(2, ExistingArgs(l, s))
    THEN [threw |-> TRUE, table |-> T]
    ELSE IF Len(SelectStep(T, ExistingArgs(l, s))) > 0
         THEN [threw |-> FALSE, table |-> UpdateStep(T, l, s, st)]
         ELSE InsertStep(T, l, s, st)

(***************************************************************************)
(* GET /api/courses: the catalog joined per course, with its progress.     *)
(***************************************************************************)
\* Math.round of the quotient num/den (den > 0): the nearest integer, halves up
MathFloor(num, den) == num \div den

MathRound(num, den) == (2 * num + den) \div (2 * den)

SelectModules(M, courseId) == SelectSeq(M, LAMBDA m : m.course_id = courseId)

SelectLessons(L, moduleId) == SelectSeq(L, LAMBDA l : l.module_id = moduleId)

fullModules(M, L, courseId) ==
    LET ms == SelectModules(M, courseId)
    IN  [i \in 1..Len(ms) |->
            [id |-> ms[i].id, course_id |-> ms[i].course_id, title |-> ms[i].title,
             lessons |-> SelectLessons(L, ms[i].id)]]

RECURSIVE FlatLessonIds(_)
FlatLessonIds(fm) ==
    IF fm = <<>> THEN <<>>
    ELSE [i \in 1..Len(Head(fm).lessons) |-> Head(fm).lessons[i].id]
         \o FlatLessonIds(Tail(fm))

completedCountAnyStatus(T, ids) ==
    Cardinality({i \in 1..Len(T) : T[i].lesson_id \in Range(ids)})

\* SELECT COUNT(*) ... WHERE lesson_id IN (ids) AND status = 'completed'
completedCount(T, ids) ==
    IF Len(ids) > 0
    THEN Cardinality({i \in 1..Len(T) :
                        T[i].lesson_id \in Range(ids) /\ T[i].status = "completed"})
    ELSE 0

progress(T, ids) ==
    LET totalSteps == Len(ids) * StepsPerLesson
    IN  IF totalSteps > 0
        THEN MathRound(completedCount(T, ids) * 100, totalSteps)
        ELSE 0

CoursesView(C, M, L, T) ==
    [i \in 1..Len(C) |->
        LET fm == fullModules(M, L, C[i].id)
        IN  [id |-> C[i].id, title |-> C[i].title, modules |-> fm,
             progress |-> progress(T, FlatLessonIds(fm))]]

(***************************************************************************)
(* Handlers of the progress API.                                           *)
(***************************************************************************)
PostProgress(l, s, st) ==
    LET r == recordStep(step_progress, l, s, st)
    IN  /\ step_progress' = r.table
        /\ req' = [op |-> "POST /api/progress", lesson_id |-> l, step_id |-> s, status |-> st]
        /\ resp' = IF r.threw THEN Error500 ELSE [status |-> 200, success |-> TRUE]
        /\ UNCHANGED <<courses, modules, lessons, settings, now>>

GetProgress ==
    /\ req' = [op |-> "GET /api/progress"]
    /\ resp' = [status |-> 200, rows |-> step_progress]
    /\ UNCHANGED <<store, now>>

GetCourses ==
    /\ req' = [op |-> "GET /api/courses"]
    /\ resp' = [status |-> 200, courses |-> CoursesView(courses, modules, lessons, step_progress)]
    /\ UNCHANGED <<store, now>>

(***************************************************************************)
(* Handlers of the settings API.                                           *)
(***************************************************************************)
\* better-sqlite3 binds numbers, strings, bigints, buffers and null; a value
\* that is undefined makes run() throw a TypeError
Bindable(v) == v # Undefined

\* SELECT * FROM settings WHERE id = 1
SelectSettings(S) == SelectSeq(S, LAMBDA r : r.id = 1)

InsertDefaultSettingsNowhere(S) == S

\* INSERT INTO settings (id) VALUES (1): theme and voice_enabled take their
\* column DEFAULTs; id is the PRIMARY KEY
InsertDefaultSettings(S) ==
    IF \E i \in 1..Len(S) : S[i].id = 1
    THEN S
    ELSE Append(S, [id |-> 1, theme |-> "dark", voice_enabled |-> 1])

\* UPDATE settings SET theme = ?, voice_enabled = ? WHERE id = 1
UpdateSettings(S, theme, voice) ==
    [i \in 1..Len(S) |->
        IF S[i].id = 1 THEN [S[i] EXCEPT !.theme = theme, !.voice_enabled = voice] ELSE S[i]]

GetSettings ==
    LET found == SelectSettings(settings)
        after == IF Len(found) = 0 THEN InsertDefaultSettings(settings) ELSE settings
        again == IF Len(found) = 0 THEN SelectSettings(after) ELSE found
    IN  /\ settings' = after
        /\ req' = [op |-> "GET /api/settings"]
        /\ resp' = IF Len(again) = 0
                   THEN [status |-> 200, empty |-> TRUE]
                   ELSE [status |-> 200, row |-> again[1]]
        /\ UNCHANGED <<courses, modules, lessons, step_progress, now>>

PostSettings(theme, voice_enabled) ==
    /\ req' = [op |-> "POST /api/settings", theme |-> theme, voice_enabled |-> voice_enabled]
    /\ IF Bindable(theme)
       THEN /\ settings' = UpdateSettings(settings, theme, IF Truthy(voice_enabled) THEN 1 ELSE 0)
            /\ resp' = [status |-> 200, success |-> TRUE]
       ELSE /\ settings' = settings
            /\ resp' = Error500
    /\ UNCHANGED <<courses, modules, lessons, step_progress, now>>

(***************************************************************************)
(* POST /api/courses: the course row, then per module its row and its      *)
(* lessons' rows, each insert run at once (no transaction).                *)
(***************************************************************************)
Digits == <<"0", "1", "2", "3", "4", "5", "6", "7", "8", "9">>

\* the decimal text of n, as a template literal prints it
RECURSIVE ToText(_)
ToText(n) == IF n < 10 THEN Digits[n + 1] ELSE ToText(n \div 10) \o Digits[(n % 10) + 1]

\* `${prefix}${Date.now()}_${Math.random().toString(36).substr(2, 9)}`: the k-th
\* draw of a request stands for its random text (draws are taken to differ)
GeneratedId(prefix, t, k) == prefix \o ToText(t) \o "_r" \o ToText(k)

\* a || b on an id: "" and undefined are falsy
IdOrAlways(id, generated) == generated

IdOr(id, generated) == IF id # Undefined /\ id # "" THEN id ELSE generated

HasId(rows, id) == \E i \in 1..Len(rows) : rows[i].id = id

\* the lessons of one module: st is [threw, lessons, draws]
RECURSIVE InsertLessons(_, _, _, _)
InsertLessons(st, ls, moduleId, t) ==
    IF ls = <<>> \/ st.threw THEN st
    ELSE LET lesson == Head(ls)
             lessonId == IdOr(lesson.id, GeneratedId("l", t, st.draws + 1))
             drawn == IF lessonId = lesson.id THEN st.draws ELSE st.draws + 1
         IN  IF ~Bindable(lesson.title) \/ ~Bindable(lesson.language)
                \/ HasId(st.lessons, lessonId)
             THEN [st EXCEPT !.threw = TRUE, !.draws = drawn]
             ELSE InsertLessons(
                    [st EXCEPT !.draws = drawn,
                               !.lessons = Append(@, [id |-> lessonId, module_id |-> moduleId,
                                                      title |-> lesson.title,
                                                      language |-> lesson.language])],
                    Tail(ls), moduleId, t)

\* the modules of the request: st is [threw, modules, lessons, draws]
RECURSIVE InsertModules(_, _, _, _)
InsertModules(st, ms, courseId, t) ==
    IF ms = <<>> \/ st.threw THEN st
    ELSE LET mod == Head(ms)
             moduleId == IdOr(mod.id, GeneratedId("m", t, st.draws + 1))
             drawn == IF moduleId = mod.id THEN st.draws ELSE st.draws + 1
         IN  IF ~Bindable(mod.title) \/ HasId(st.modules, moduleId)
             THEN [st EXCEPT !.threw = TRUE, !.draws = drawn]
             ELSE LET withModule ==
                          [st EXCEPT !.draws = drawn,
                                     !.modules = Append(@, [id |-> moduleId,
                                                            course_id |-> courseId,
                                                            title |-> mod.title])]
                      withLessons ==
                          InsertLessons([threw |-> FALSE, lessons |-> withModule.lessons,
                                         draws |-> withModule.draws],
                                        mod.lessons, moduleId, t)
                  IN  InsertModules([withModule EXCEPT !.threw = withLessons.threw,
                                                       !.lessons = withLessons.lessons,
                                                       !.draws = withLessons.draws],
                                    Tail(ms), courseId, t)

PostCourses(body) ==
    LET courseId == "c" \o ToText(now)
        courseThrows == \/ ~Bindable(body.title)
                        \/ ~Bindable(body.description)
                        \/ HasId(courses, courseId)
        done == InsertModules([threw |-> FALSE, modules |-> modules, lessons |-> lessons,
                               draws |-> 0],
                              body.modules, courseId, now)
    IN  /\ req' = [op |-> "POST /api/courses", body |-> body]
        /\ IF courseThrows
           THEN /\ UNCHANGED <<courses, modules, lessons, recorded>>
                /\ resp' = Error500
           ELSE /\ courses' = Append(courses, [id |-> courseId, title |-> body.title])
                /\ modules' = done.modules
                /\ lessons' = done.lessons
                /\ resp' = IF done.threw THEN Error500 ELSE [status |-> 200, id |-> courseId]
                /\ recorded' = IF done.threw THEN recorded
                               ELSE recorded \cup {[id |-> courseId, body |-> body]}
        /\ UNCHANGED <<step_progress, settings, now, nreq>>
        /\ UNCHANGED client

\* the clock of the server advances
Tick ==
    /\ now < MaxNow
    /\ now' = now + 1
    /\ UNCHANGED <<store, req, resp, nreq, recorded>>
    /\ UNCHANGED client

(***************************************************************************)
(* Spec: the progress API on a freshly created (seeded) database.          *)
(***************************************************************************)
FreshServer ==
    /\ courses = SeedCourses
    /\ modules = SeedModules
    /\ lessons = SeedLessons
    /\ step_progress = <<>>
    /\ settings = <<>>
    /\ now = 1000
    /\ req = NoRequest
    /\ resp = NoResponse
    /\ nreq = 0
    /\ recorded = {}

\* no lesson view is mounted in the browser
NoCodeIDE ==
    /\ language = "html"
    /\ output = ""
    /\ isRunning = FALSE
    /\ pyodide = "null"
    /\ loads = 0
    /\ runs = {}
    /\ nruns = 0

NoInstructorPanel ==
    /\ active = <<Undefined, "explanation">>
    /\ userCode = ""
    /\ voiceEnabled = TRUE
    /\ messages = <<>>
    /\ isLoading = FALSE
    /\ voiceType = "local"
    /\ showVoiceToast = FALSE
    /\ notices = 0
    /\ turns = {}
    /\ speech = {}
    /\ synth = {}
    /\ source = {}
    /\ nturns = 0
    /\ isSpeaking = FALSE
    /\ speakingMessageId = {}
    /\ ended = {}

\* App before fetchData: nothing is loaded and no step change is under way
NoStepChange ==
    /\ calls = {}
    /\ ncalls = 0
    /\ viewCourses = <<>>
    /\ viewProgress = <<>>

\* no call of the AI service is under way
NoRetry == retry = [state |-> "idle"]

NoLessonView == NoCodeIDE /\ NoInstructorPanel /\ NoStepChange /\ NoRetry

Init == FreshServer /\ NoLessonView

Counted ==
    /\ nreq < MaxRequests
    /\ nreq' = nreq + 1
    /\ UNCHANGED recorded
    /\ UNCHANGED client

Uncounted == UNCHANGED <<nreq, recorded, client>>

Next ==
    \/ \E l \in LessonInputs, s \in StepInputs, st \in StatusInputs :
          PostProgress(l, s, st) /\ Counted
    \/ GetProgress /\ Counted
    \/ GetCourses /\ Counted

Spec == Init /\ [][Next]_vars

(***************************************************************************)
(* SpecStored: the same API started on a database file that already holds  *)
(* step_progress rows (new Database("codeloom.db") opens what is there and *)
(* CREATE TABLE IF NOT EXISTS keeps it).  The rows are drawn from every    *)
(* table over StoredPairs that the schema's UNIQUE constraint admits.      *)
(***************************************************************************)
StoredPairs ==
    << <<"l3", "explanation">>, <<"l3", "example">>, <<"l3", "guided">>,
       <<"l3", "independent">>, <<"l3", "feedback">>, <<"l3", "extra">>,
       <<"l1", "explanation">>, <<"l2", "explanation">> >>

Presence == {"absent", "not_started", "completed"}

RECURSIVE StoredRows(_, _, _)
StoredRows(f, i, acc) ==
    IF i > Len(StoredPairs) THEN acc
    ELSE StoredRows(f, i + 1,
            IF f[i] = "absent" THEN acc
            ELSE Append(acc, [id |-> Len(acc) + 1, lesson_id |-> StoredPairs[i][1],
                              step_id |-> StoredPairs[i][2], status |-> f[i]]))

StoredTables == {StoredRows(f, 1, <<>>) : f \in [1..Len(StoredPairs) -> Presence]}

\* what POST /api/courses {title, modules: [{title, lessons: []}]} has left
StoredCourses == SeedCourses \o << [id |-> "c1000", title |-> "Drafts"] >>

StoredModules ==
    SeedModules \o << [id |-> "m1000_a", course_id |-> "c1000", title |-> "No lessons yet"] >>

StoredLessonInputs == {"l1", "l3", "lx"}

StoredStepInputs == {"explanation", "extra"}

InitStored ==
    /\ courses = StoredCourses
    /\ modules = StoredModules
    /\ lessons = SeedLessons
    /\ step_progress \in StoredTables
    /\ settings = <<>>
    /\ now = 1000
    /\ req = NoRequest
    /\ resp = NoResponse
    /\ nreq = 0
    /\ recorded = {}
    /\ NoLessonView

NextStored ==
    \/ \E l \in StoredLessonInputs, s \in StoredStepInputs, st \in StatusInputs :
          PostProgress(l, s, st) /\ Uncounted
    \/ GetProgress /\ Uncounted
    \/ GetCourses /\ Uncounted

SpecStored == InitStored /\ [][NextStored]_vars

(***************************************************************************)
(* SpecScenario: a client records the ten (lesson, step) pairs of the      *)
(* seeded two-lesson course c1 as completed, one request per pair in any   *)
(* order, and reads the catalog in between.                                *)
(***************************************************************************)
ScenarioPairs == {"l1", "l2"} \X NamedSteps

RecordCompleted(l, s) ==
    /\ <<l, s>> \notin recorded
    /\ PostProgress(l, s, "completed")
    /\ recorded' = recorded \cup {<<l, s>>}
    /\ UNCHANGED nreq
    /\ UNCHANGED client

NextScenario ==
    \/ \E p \in ScenarioPairs : RecordCompleted(p[1], p[2])
    \/ GetCourses /\ Uncounted

SpecScenario == Init /\ [][NextScenario]_vars

(***************************************************************************)
(* Properties of the progress store.                                       *)
(***************************************************************************)
IsPostProgress(r) == r.op = "POST /api/progress"

IsGetCourses(r) == r.op = "GET /api/courses"

RowsFor(T, l, s) == {i \in 1..Len(T) : T[i].lesson_id = l /\ T[i].step_id = s}

\* C1: the step_progress table never holds two rows for one (lesson_id, step_id)
\* pair, whatever POST /api/progress requests have been handled.
UniquePair_C1 ==
    \A i, j \in 1..Len(step_progress) :
        (step_progress[i].lesson_id = step_progress[j].lesson_id
         /\ step_progress[i].step_id = step_progress[j].step_id) => i = j

\* an upsert for a pair that already has a row has been handled
UpsertOnExisting_C1 ==
    /\ IsPostProgress(req)
    /\ resp # NoResponse
    /\ RowsFor(step_progress, req.lesson_id, req.step_id) # {}

\* C2: when POST /api/progress (l, s, 'completed') is handled a second time in a
\* row, the table holds exactly one row for (l, s) and its status is 'completed'.
Idempotent_C2 ==
    [][ ( /\ IsPostProgress(req) /\ IsPostProgress(req')
          /\ nreq' = nreq + 1
          /\ req.status = "completed" /\ req'.status = "completed"
          /\ req'.lesson_id = req.lesson_id /\ req'.step_id = req.step_id )
        => ( /\ Cardinality(RowsFor(step_progress', req'.lesson_id, req'.step_id)) = 1
             /\ \A i \in RowsFor(step_progress', req'.lesson_id, req'.step_id) :
                    step_progress'[i].status = "completed" ) ]_vars

\* C3: after two successive POST /api/progress requests for one pair with
\* different statuses the table holds exactly one row for the pair, and its
\* status is the status of the later request.
LastWriteWins_C3 ==
    [][ ( /\ IsPostProgress(req) /\ IsPostProgress(req')
          /\ nreq' = nreq + 1
          /\ req'.status # req.status
          /\ req'.lesson_id = req.lesson_id /\ req'.step_id = req.step_id )
        => ( /\ Cardinality(RowsFor(step_progress', req'.lesson_id, req'.step_id)) = 1
             /\ \A i \in RowsFor(step_progress', req'.lesson_id, req'.step_id) :
                    step_progress'[i].status = req'.status ) ]_vars

(***************************************************************************)
(* SpecSettings: the settings API on a freshly created database.           *)
(***************************************************************************)
NextSettings ==
    \/ GetSettings /\ Counted
    \/ \E theme \in ThemeInputs, v \in VoiceInputs : PostSettings(theme, v) /\ Counted

SpecSettings == Init /\ [][NextSettings]_vars

IsGetSettings(r) == r.op = "GET /api/settings"

IsPostSettings(r) == r.op = "POST /api/settings"

DefaultSettings == [id |-> 1, theme |-> "dark", voice_enabled |-> 1]

\* C8: the settings table never holds more than one row and that row has id 1;
\* a GET /api/settings on the empty table answers {id: 1, theme: 'dark',
\* voice_enabled: 1} and leaves exactly that row in the table.
SettingsSingleton_C8 ==
    /\ [](Len(settings) <= 1 /\ \A i \in 1..Len(settings) : settings[i].id = 1)
    /\ [][ (settings = <<>> /\ IsGetSettings(req'))
           => ( /\ resp'.status = 200
                /\ resp' = [status |-> 200, row |-> DefaultSettings]
                /\ settings' = <<DefaultSettings>> ) ]_vars

\* the first request to the fresh database was GET /api/settings
FirstGetSettings_C8 ==
    /\ IsGetSettings(req)
    /\ nreq = 1
    /\ Len(settings) = 1

\* C9: when POST /api/settings {theme, voice_enabled} has answered
\* {success: true}, the GET /api/settings that follows returns that theme and
\* that voice_enabled as 1 or 0.
OverwriteThenRead_C9 ==
    [][ (IsPostSettings(req) /\ resp.status = 200 /\ IsGetSettings(req'))
        => ( /\ resp'.status = 200
             /\ resp' = [status |-> 200,
                         row |-> [id |-> 1, theme |-> req.theme,
                                  voice_enabled |-> IF req.voice_enabled \in {"true", "1"}
                                                   THEN 1 ELSE 0]] ) ]_vars

(***************************************************************************)
(* SpecCourses: courses are posted to a freshly created database and the   *)
(* catalog is read back.  A body has one or two modules with up to two     *)
(* lessons; ids are absent, empty or supplied.                             *)
(***************************************************************************)
Shapes == {<<>>, <<0>>, <<2>>, <<1, 1>>}

\* how a body gives its module ids and its lesson ids
IdModes ==
    {<<"absent", "absent">>, <<"supplied", "supplied">>, <<"absent", "supplied">>,
     <<"supplied", "absent">>, <<"empty", "supplied">>, <<"supplied", "empty">>}

ModuleTitles == <<"Basics", "Advanced">>

LessonTitles == <<"Intro", "Practice">>

Languages == <<"python", "javascript">>

SuppliedModuleIds == <<"mA", "mB">>

SuppliedLessonIds == << <<"lA", "lB">>, <<"lC", "lD">> >>

IdInput(mode, supplied) ==
    CASE mode = "absent" -> Undefined
      [] mode = "empty" -> ""
      [] OTHER -> supplied

CourseBody(title, description, shape, mmode, lmode, lastLanguage) ==
    [title |-> title, description |-> description,
     modules |->
        [i \in 1..Len(shape) |->
            [id |-> IdInput(mmode, SuppliedModuleIds[i]),
             title |-> ModuleTitles[i],
             lessons |->
                [j \in 1..shape[i] |->
                    [id |-> IdInput(lmode, SuppliedLessonIds[i][j]),
                     title |-> LessonTitles[j],
                     language |-> IF i = Len(shape) /\ j = shape[i] /\ lastLanguage # ""
                                  THEN lastLanguage ELSE Languages[j]]]]]]

CourseBodies ==
    {CourseBody("Algorithms", "d", sh, im[1], im[2], "") : sh \in Shapes, im \in IdModes}
    \cup {CourseBody(Undefined, "d", <<0>>, "absent", "absent", ""),
          CourseBody("Algorithms", Undefined, <<0>>, "absent", "absent", ""),
          CourseBody("Algorithms", "d", <<1, 1>>, "absent", "absent", Undefined)}

NextCourses ==
    \/ \E body \in CourseBodies : PostCourses(body)
    \/ GetCourses /\ Uncounted
    \/ Tick

SpecCourses == Init /\ [][NextCourses]_vars

\* an id the claim calls supplied: any id the body carries
SuppliedAny(id) == id # Undefined

\* a supplied id that is not the empty string
SuppliedNonEmpty(id) == id # Undefined /\ id # ""

\* view, a course as GET /api/courses returns it, shows body as posted
SameCourse(view, body, Supplied(_)) ==
    /\ view.title = body.title
    /\ Len(view.modules) = Len(body.modules)
    /\ \A i \in 1..Len(body.modules) :
          LET vm == view.modules[i]
              bm == body.modules[i]
          IN  /\ vm.title = bm.title
              /\ IF Supplied(bm.id) THEN vm.id = bm.id ELSE vm.id \notin {Undefined, "", bm.id}
              /\ Len(vm.lessons) = Len(bm.lessons)
              /\ \A j \in 1..Len(bm.lessons) :
                    /\ vm.lessons[j].title = bm.lessons[j].title
                    /\ vm.lessons[j].language = bm.lessons[j].language
                    /\ IF Supplied(bm.lessons[j].id)
                       THEN vm.lessons[j].id = bm.lessons[j].id
                       ELSE vm.lessons[j].id \notin {Undefined, "", bm.lessons[j].id}

CourseLessonIds(c) ==
    {l.id : l \in {x \in Range(lessons) :
                      \E m \in Range(modules) : m.id = x.module_id /\ m.course_id = c}}

CompletedRows(c) ==
    {i \in 1..Len(step_progress) :
        /\ step_progress[i].status = "completed"
        /\ step_progress[i].lesson_id \in CourseLessonIds(c)}

\* round(num / den): the integer p with p - 1/2 <= num/den < p + 1/2
Nearest(num, den) ==
    CHOOSE p \in 0..(2 * num + 1) : 2 * p * den - den <= 2 * num /\ 2 * num < 2 * p * den + den

\* C4: the progress GET /api/courses returns for a course is
\* round(100 * completed / (lessons * 5)) over the current step_progress table,
\* and 0 for a course without lessons.
ProgressFormula_C4 ==
    IsGetCourses(req) =>
        /\ Len(resp.courses) = Len(courses)
        /\ \A i \in 1..Len(courses) :
              LET c == courses[i].id
                  n == Cardinality(CourseLessonIds(c))
              IN  /\ resp.courses[i].id = c
                  /\ resp.courses[i].progress =
                        IF n = 0 THEN 0
                        ELSE Nearest(100 * Cardinality(CompletedRows(c)), n * 5)

\* a read over a table with completed and not_started rows: a course strictly
\* between 0 and 100 beside a course without lessons
PartialProgress_C4 ==
    /\ IsGetCourses(req)
    /\ \E i \in 1..Len(resp.courses) : resp.courses[i].progress \in 1..99
    /\ \E i \in 1..Len(courses) : CourseLessonIds(courses[i].id) = {}
    /\ \E i \in 1..Len(step_progress) : step_progress[i].status = "not_started"

\* C5: the computed progress of every course lies in 0..100, and it is 0 when the
\* course has no lesson or the table has no completed row for its lessons.
ProgressInRange_C5 ==
    IsGetCourses(req) =>
        \A i \in 1..Len(resp.courses) :
            /\ resp.courses[i].progress \in 0..100
            /\ (CourseLessonIds(resp.courses[i].id) = {}
                \/ CompletedRows(resp.courses[i].id) = {})
               => resp.courses[i].progress = 0

\* C6: for the two-lesson course c1, GET /api/courses reports 0 when nothing has
\* been recorded, 30 after 3 distinct pairs and 100 after all 10 pairs have been
\* posted as completed.
Scenario_C6 ==
    IsGetCourses(req) =>
        \A i \in 1..Len(resp.courses) :
            resp.courses[i].id = "c1" =>
                /\ Cardinality(recorded) = 0 => resp.courses[i].progress = 0
                /\ Cardinality(recorded) = 3 => resp.courses[i].progress = 30
                /\ Cardinality(recorded) = 10 => resp.courses[i].progress = 100

ProgressOf(C, M, L, T, i) == CoursesView(C, M, L, T)[i].progress

\* C7: a POST /api/progress with status 'not_started' for a pair whose row is
\* 'completed' raises the progress of no course and leaves at most one row for
\* the pair.
NotStartedNeverRaises_C7 ==
    [][ ( /\ IsPostProgress(req')
          /\ req'.status = "not_started"
          /\ \E i \in RowsFor(step_progress, req'.lesson_id, req'.step_id) :
                step_progress[i].status = "completed" )
        => ( /\ \A i \in 1..Len(courses) :
                   ProgressOf(courses', modules', lessons', step_progress', i)
                     <= ProgressOf(courses, modules, lessons, step_progress, i)
             /\ Cardinality(RowsFor(step_progress', req'.lesson_id, req'.step_id)) <= 1 ) ]_vars

\* 'not_started' has been posted for a pair that has a row
NotStartedOnExisting_C7 ==
    /\ IsPostProgress(req)
    /\ req.status = "not_started"
    /\ resp # NoResponse
    /\ RowsFor(step_progress, req.lesson_id, req.step_id) # {}

(***************************************************************************)
(* The code runner of the lesson view (CodeIDE).  runCode is an async      *)
(* function: it runs atomically from the click to its first await, and     *)
(* each continuation runs atomically when the awaited promise settles.     *)
(* A call waiting at an await is a record of `runs`:                       *)
(*   at        the await it waits at, "runPythonAsync" or "getCodeFeedback" *)
(*   shown     the output the call has set for its run so far              *)
(*   forwarded the third argument of getCodeFeedback                       *)
(*   evaluated whether the call has handed the source to an evaluator      *)
(***************************************************************************)
MaxRuns == 3

MaxLoads == 2

Languages_Runner == {"javascript", "html", "python", "css"}

LoadingText == "Loading Python runtime..."

ReadyText == "Python runtime ready."

LoadFailedText == "Failed to load Python runtime: Pyodide script not found"

NotReadyText == "Python runtime not ready."

HtmlText == "HTML rendered in preview."

SystemErrorText == "System Error: 429 quota"

\* what eval(code) leaves behind: the joined console.log lines, or a throw
EvalOutcomes == {[threw |-> FALSE, logs |-> "hello"],
                 [threw |-> FALSE, logs |-> ""],
                 [threw |-> TRUE, logs |-> ""]}

\* how pyodide.runPythonAsync(code) settles: String(result), or a rejection
PythonOutcomes == {[threw |-> FALSE, result |-> "42"],
                   [threw |-> FALSE, result |-> ""],
                   [threw |-> TRUE, result |-> ""]}

\* a || b on strings
OrElse(a, b) == IF a = "" THEN b ELSE a

javascriptOutput(o) ==
    IF o.threw THEN "Error: boom"
    ELSE OrElse(o.logs, "Code executed successfully (no output).")

pythonOutput(o) ==
    IF o.threw THEN "Python Error: boom"
    ELSE OrElse(o.result, "Code executed successfully.")

\* the Run Code button takes a click unless it is disabled
RunEnabledAlways(running) == TRUE

RunEnabled(running) == ~running

\* the useEffect on lesson.language, run with the language lang on screen
loadPyodide(lang) ==
    IF lang = "python" /\ pyodide = "null"
    THEN /\ loads < MaxLoads
         /\ loads' = loads + 1
         /\ output' = LoadingText
    ELSE UNCHANGED <<loads, output>>

\* another lesson comes on screen; CodeIDE stays mounted
SelectLesson_Runner(lang) ==
    /\ lang # language
    /\ language' = lang
    /\ loadPyodide(lang)
    /\ UNCHANGED <<isRunning, pyodide, runs, nruns>>
    /\ UNCHANGED <<server, panel, app, retry>>

LoadSucceeds ==
    /\ loads > 0
    /\ loads' = loads - 1
    /\ pyodide' = "py"
    /\ output' = ReadyText
    /\ UNCHANGED <<language, isRunning, runs, nruns>>
    /\ UNCHANGED <<server, panel, app, retry>>

LoadFails ==
    /\ loads > 0
    /\ loads' = loads - 1
    /\ output' = LoadFailedText
    /\ UNCHANGED <<language, isRunning, pyodide, runs, nruns>>
    /\ UNCHANGED <<server, panel, app, retry>>

\* runCode up to its first await
AwaitFeedback(shown, evaluated) ==
    [id |-> nruns + 1, at |-> "getCodeFeedback", shown |-> shown,
     forwarded |-> output, evaluated |-> evaluated]

runCode(o) ==
    /\ RunEnabled(isRunning)
    /\ nruns < MaxRuns
    /\ nruns' = nruns + 1
    /\ isRunning' = TRUE
    /\ CASE language = "javascript" ->
              /\ output' = javascriptOutput(o)
              /\ runs' = runs \cup {AwaitFeedback(javascriptOutput(o), TRUE)}
         [] language = "html" ->
              /\ output' = HtmlText
              /\ runs' = runs \cup {AwaitFeedback(HtmlText, TRUE)}
         [] language = "python" /\ pyodide = "null" ->
              /\ output' = NotReadyText
              /\ runs' = runs \cup {AwaitFeedback(NotReadyText, FALSE)}
         [] language = "python" /\ pyodide # "null" ->
              /\ output' = ""
              /\ runs' = runs \cup {[id |-> nruns + 1, at |-> "runPythonAsync", shown |-> "",
                                     forwarded |-> output, evaluated |-> TRUE]}
         [] OTHER ->
              /\ output' = ""
              /\ runs' = runs \cup {AwaitFeedback("", FALSE)}
    /\ UNCHANGED <<language, pyodide, loads>>
    /\ UNCHANGED <<server, panel, app, retry>>

\* runPythonAsync settles
PythonSettles(r, o) ==
    /\ r \in runs
    /\ r.at = "runPythonAsync"
    /\ output' = pythonOutput(o)
    /\ runs' = (runs \ {r}) \cup {[r EXCEPT !.at = "getCodeFeedback", !.shown = pythonOutput(o)]}
    /\ UNCHANGED <<language, isRunning, pyodide, loads, nruns>>
    /\ UNCHANGED <<server, panel, app, retry>>

\* getCodeFeedback resolves: onFeedback, then the finally block
FeedbackResolves(r) ==
    /\ r \in runs
    /\ r.at = "getCodeFeedback"
    /\ runs' = runs \ {r}
    /\ isRunning' = FALSE
    /\ UNCHANGED <<language, output, pyodide, loads, nruns>>
    /\ UNCHANGED <<server, panel, app, retry>>

\* getCodeFeedback rejects: the catch block, then the finally block
FeedbackRejects(r) ==
    /\ r \in runs
    /\ r.at = "getCodeFeedback"
    /\ runs' = runs \ {r}
    /\ output' = SystemErrorText
    /\ isRunning' = FALSE
    /\ UNCHANGED <<language, pyodide, loads, nruns>>
    /\ UNCHANGED <<server, panel, app, retry>>

InitRunner ==
    /\ FreshServer
    /\ NoRetry
    /\ NoInstructorPanel
    /\ NoStepChange
    /\ language \in Languages_Runner
    /\ output = (IF language = "python" THEN LoadingText ELSE "")
    /\ isRunning = FALSE
    /\ pyodide = "null"
    /\ loads = (IF language = "python" THEN 1 ELSE 0)
    /\ runs = {}
    /\ nruns = 0

NextRunner ==
    \/ \E lang \in Languages_Runner : SelectLesson_Runner(lang)
    \/ LoadSucceeds
    \/ LoadFails
    \/ \E o \in EvalOutcomes : runCode(o)
    \/ \E r \in runs, o \in PythonOutcomes : PythonSettles(r, o)
    \/ \E r \in runs : FeedbackResolves(r)
    \/ \E r \in runs : FeedbackRejects(r)

SpecRunner == InitRunner /\ [][NextRunner]_vars

\* C11: at most one call of runCode is in flight, the button is disabled as
\* long as one is (its feedback request included), and no click is taken
\* while the button is disabled.
OneRunInFlight_C11 ==
    /\ Cardinality(runs) <= 1
    /\ runs # {} => isRunning

RunWaitsForFeedback_C11 ==
    \E r \in runs : r.at = "getCodeFeedback" /\ isRunning /\ nruns = 2

\* C12: a feedback request that fails leaves the console output as it was:
\* the step that handles the rejection does not write the output.
FeedbackFailureKeepsOutput_C12 ==
    [][(\E r \in runs : FeedbackRejects(r)) => output' = output]_vars

\* C13: the output a run forwards to getCodeFeedback is the output of that
\* run, whatever the console showed before the click.
ForwardsOwnOutput_C13 ==
    \A r \in runs : r.at = "getCodeFeedback" => r.forwarded = r.shown

\* C14: a python run started while the interpreter is not loaded evaluates
\* nothing, and when it ends the button is enabled again and the console
\* shows the not-ready text.
NotReadyRunEnds_C14 ==
    [][\A r \in runs :
          (r.shown = NotReadyText /\ r \notin runs')
              => (~r.evaluated /\ ~isRunning' /\ output' = NotReadyText)]_vars

(***************************************************************************)
(* The instructor panel of the lesson view (InstructorPanel) with its two  *)
(* voice backends.  A getInstructorResponse call in flight is a record of  *)
(* `turns`, holding what the closure of the calling handler holds:         *)
(*   kind      "initial" (loadInitialResponse) or "followup" (handleSend)  *)
(*   of        the <<lesson id, step>> the request was made for            *)
(*   history   the history argument                                       *)
(*   voiceType the voice backend of the render the handler belongs to      *)
(* An utterance is a record [of, id]: the pair it was requested for and    *)
(* the turn whose reply it speaks.  `speech` holds the utterances whose    *)
(* generateSpeech call is in flight, `synth` and `source` the ones the     *)
(* local synthesizer and the PCM buffer source are playing.                *)
(***************************************************************************)
MaxTurns == 3

PanelLessons == {"l1"}

PanelSteps == {"explanation", "example"}

ExampleCode == "lesson.example"

\* the JSON object a turn request resolves to
Responses == [text : {"Welcome", "<code block>"}, codeUpdate : {Undefined, "codeUpdate"}]

InputValues == {"question"}

stripCodeBlocks(text) == IF text = "<code block>" THEN "" ELSE text

ChatMessage(role, text, of) == [role |-> role, text |-> text, of |-> of]

Apology(kind, isQuota) ==
    IF kind = "initial"
    THEN (IF isQuota THEN "I'm a bit overwhelmed with requests right now!"
                     ELSE "I encountered an error while trying to respond.")
    ELSE (IF isQuota THEN "I'm sorry, I've reached my limit for a moment."
                     ELSE "Something went wrong on my end.")

Apologies == {Apology(k, q) : k \in {"initial", "followup"}, q \in BOOLEAN}

\* setMessages([m]) of loadInitialResponse, setMessages(prev => [...prev, m]) of handleSend
withReply(kind, msgs, m) == IF kind = "initial" THEN <<m>> ELSE Append(msgs, m)

withApologyDropped(kind, msgs, m) == msgs

withApology(kind, msgs, m) == IF kind = "initial" THEN <<m>> ELSE Append(msgs, m)

Utterance(t) == [of |-> t.of, id |-> t.id]

\* setIsSpeaking(false); setSpeakingMessageId(null)
flagsCleared ==
    /\ isSpeaking' = FALSE
    /\ speakingMessageId' = {}

\* cancel() ends the utterance of the synthesizer, whose onend or onerror runs
\* first; then the synthesizer starts u and its onstart sets the flags
playLocalVoice(u) ==
    /\ synth' = {u}
    /\ isSpeaking' = TRUE
    /\ speakingMessageId' = {u.id}

\* the source that was playing is stopped, its onended is still to run; the
\* new source starts and the flags are set
playPCM(u) ==
    /\ ended' = ended \cup source
    /\ source' = {u}
    /\ isSpeaking' = TRUE
    /\ speakingMessageId' = {u.id}

\* handleSpeak up to its first await, called by the handler of turn t
handleSpeak(text, t) ==
    IF stripCodeBlocks(text) = ""
    THEN UNCHANGED <<synth, speech, isSpeaking, speakingMessageId>>
    ELSE IF t.voiceType = "local"
         THEN /\ playLocalVoice(Utterance(t))
              /\ UNCHANGED speech
         ELSE /\ speech' = speech \cup {Utterance(t)}
              /\ UNCHANGED <<synth, isSpeaking, speakingMessageId>>

\* the effects of InstructorPanel when <<lesson.id, currentStep>> has become p:
\* the cleanup of the old pair, the reset, loadInitialResponse up to its await
Enter(p) ==
    /\ nturns < MaxTurns
    /\ active' = p
    /\ ended' = ended \cup source
    /\ source' = {}
    /\ synth' = {}
    /\ flagsCleared
    /\ messages' = <<>>
    /\ isLoading' = TRUE
    /\ turns' = turns \cup {[id |-> nturns + 1, kind |-> "initial", of |-> p,
                             history |-> <<>>, voiceType |-> voiceType]}
    /\ nturns' = nturns + 1

handleSelectLesson(l) ==
    /\ userCode' = ExampleCode
    /\ IF <<l, "explanation">> # active
       THEN Enter(<<l, "explanation">>)
       ELSE UNCHANGED <<active, source, synth, messages, isLoading, turns, nturns,
                        isSpeaking, speakingMessageId, ended>>
    /\ UNCHANGED <<voiceEnabled, voiceType, showVoiceToast, notices, speech>>
    /\ UNCHANGED <<server, runner, app, retry>>

handleStepChange(step) ==
    /\ step # active[2]
    /\ Enter(<<active[1], step>>)
    /\ UNCHANGED <<userCode, voiceEnabled, voiceType, showVoiceToast, notices, speech>>
    /\ UNCHANGED <<server, runner, app, retry>>

handleSend(inputValue) ==
    /\ ~isLoading
    /\ nturns < MaxTurns
    /\ messages' = Append(messages, ChatMessage("user", inputValue, active))
    /\ isLoading' = TRUE
    /\ turns' = turns \cup {[id |-> nturns + 1, kind |-> "followup", of |-> active,
                             history |-> Append(messages, ChatMessage("user", inputValue, active)),
                             voiceType |-> voiceType]}
    /\ nturns' = nturns + 1
    /\ UNCHANGED <<active, userCode, voiceEnabled, voiceType, showVoiceToast, notices,
                   speech, synth, source, isSpeaking, speakingMessageId, ended>>
    /\ UNCHANGED <<server, runner, app, retry>>

\* getInstructorResponse of turn t resolves to r
TurnResolves(t, r) ==
    /\ t \in turns
    /\ turns' = turns \ {t}
    /\ messages' = withReply(t.kind, messages, ChatMessage("model", r.text, t.of))
    /\ userCode' = (IF r.codeUpdate # Undefined THEN r.codeUpdate ELSE userCode)
    /\ IF voiceEnabled THEN handleSpeak(r.text, t)
                       ELSE UNCHANGED <<synth, speech, isSpeaking, speakingMessageId>>
    /\ isLoading' = FALSE
    /\ UNCHANGED <<active, voiceEnabled, voiceType, showVoiceToast, notices, source, nturns,
                   ended>>
    /\ UNCHANGED <<server, runner, app, retry>>

\* getInstructorResponse of turn t rejects
TurnRejects(t, isQuota) ==
    /\ t \in turns
    /\ turns' = turns \ {t}
    /\ messages' = withApology(t.kind, messages, ChatMessage("model", Apology(t.kind, isQuota), t.of))
    /\ isLoading' = FALSE
    /\ UNCHANGED <<active, userCode, voiceEnabled, voiceType, showVoiceToast, notices,
                   speech, synth, source, nturns, isSpeaking, speakingMessageId, ended>>
    /\ UNCHANGED <<server, runner, app, retry>>

\* generateSpeech resolves to audio: playPCM
SpeechResolves(u) ==
    /\ u \in speech
    /\ speech' = speech \ {u}
    /\ playPCM(u)
    /\ UNCHANGED <<active, userCode, voiceEnabled, messages, isLoading, voiceType,
                   showVoiceToast, notices, turns, synth, nturns>>
    /\ UNCHANGED <<server, runner, app, retry>>

\* generateSpeech resolves to null (failure or quota): fall back to the local voice
SpeechFails(u) ==
    /\ u \in speech
    /\ speech' = speech \ {u}
    /\ voiceType' = "local"
    /\ showVoiceToast' = TRUE
    /\ notices' = notices + 1
    /\ playLocalVoice(u)
    /\ UNCHANGED <<active, userCode, voiceEnabled, messages, isLoading, turns, source, nturns,
                   ended>>
    /\ UNCHANGED <<server, runner, app, retry>>

\* the timer of the notice fires
ToastExpires ==
    /\ showVoiceToast
    /\ showVoiceToast' = FALSE
    /\ UNCHANGED <<active, userCode, voiceEnabled, messages, isLoading, voiceType,
                   notices, turns, speech, synth, source, nturns, isSpeaking,
                   speakingMessageId, ended>>
    /\ UNCHANGED <<server, runner, app, retry>>

\* the AI and Local buttons
setVoiceType(v) ==
    /\ v # voiceType
    /\ voiceType' = v
    /\ UNCHANGED <<active, userCode, voiceEnabled, messages, isLoading, showVoiceToast,
                   notices, turns, speech, synth, source, nturns, isSpeaking,
                   speakingMessageId, ended>>
    /\ UNCHANGED <<server, runner, app, retry>>

\* the synthesizer finishes its utterance
SynthEnds ==
    /\ synth # {}
    /\ synth' = {}
    /\ flagsCleared
    /\ UNCHANGED <<active, userCode, voiceEnabled, messages, isLoading, voiceType,
                   showVoiceToast, notices, turns, speech, source, nturns, ended>>
    /\ UNCHANGED <<server, runner, app, retry>>

\* the buffer source has played its buffer
SourceEnds ==
    /\ source # {}
    /\ source' = {}
    /\ flagsCleared
    /\ UNCHANGED <<active, userCode, voiceEnabled, messages, isLoading, voiceType,
                   showVoiceToast, notices, turns, speech, synth, nturns, ended>>
    /\ UNCHANGED <<server, runner, app, retry>>

\* source.onended of the stopped source that played u runs
onended(u) ==
    /\ u \in ended
    /\ ended' = ended \ {u}
    /\ flagsCleared
    /\ UNCHANGED <<active, userCode, voiceEnabled, messages, isLoading, voiceType,
                   showVoiceToast, notices, turns, speech, synth, source, nturns>>
    /\ UNCHANGED <<server, runner, app, retry>>

\* the stop button of the message being spoken
toggleSpeaking ==
    /\ isSpeaking
    /\ IF voiceType = "local"
       THEN /\ synth' = {}
            /\ UNCHANGED <<source, ended>>
       ELSE /\ ended' = ended \cup source
            /\ source' = {}
            /\ UNCHANGED synth
    /\ flagsCleared
    /\ UNCHANGED <<active, userCode, voiceEnabled, messages, isLoading, voiceType,
                   showVoiceToast, notices, turns, speech, nturns>>
    /\ UNCHANGED <<server, runner, app, retry>>

\* the lesson view has been mounted with lesson l1
InitPanel ==
    /\ FreshServer
    /\ NoRetry
    /\ NoCodeIDE
    /\ NoStepChange
    /\ active = <<"l1", "explanation">>
    /\ userCode = ExampleCode
    /\ voiceEnabled \in BOOLEAN
    /\ messages = <<>>
    /\ isLoading = TRUE
    /\ voiceType = "local"
    /\ showVoiceToast = FALSE
    /\ notices = 0
    /\ turns = {[id |-> 1, kind |-> "initial", of |-> <<"l1", "explanation">>,
                 history |-> <<>>, voiceType |-> "local"]}
    /\ speech = {}
    /\ synth = {}
    /\ source = {}
    /\ nturns = 1
    /\ isSpeaking = FALSE
    /\ speakingMessageId = {}
    /\ ended = {}

NextPanel ==
    \/ \E l \in PanelLessons : handleSelectLesson(l)
    \/ \E step \in PanelSteps : handleStepChange(step)
    \/ \E inputValue \in InputValues : handleSend(inputValue)
    \/ \E t \in turns, r \in Responses : TurnResolves(t, r)
    \/ \E t \in turns, isQuota \in BOOLEAN : TurnRejects(t, isQuota)
    \/ \E u \in speech : SpeechResolves(u)
    \/ \E u \in speech : SpeechFails(u)
    \/ ToastExpires
    \/ \E v \in {"ai", "local"} : setVoiceType(v)
    \/ SynthEnds
    \/ SourceEnds
    \/ \E u \in ended : onended(u)
    \/ toggleSpeaking

SpecPanel == InitPanel /\ [][NextPanel]_vars

\* C15: a turn response that arrives when the active pair is no longer the
\* pair of its request is discarded: the step that handles it changes
\* neither the transcript nor the editor buffer and starts no speech.
StaleResponseDiscarded_C15 ==
    [][\A t \in turns, r \in Responses :
          (t.of # active /\ TurnResolves(t, r))
              => UNCHANGED <<messages, userCode, synth, speech, source>>]_vars

\* C16: after the active pair has changed, the transcript holds no message
\* of the conversation of another pair: every message in it was asked or
\* answered for the active pair.
TranscriptOfActivePair_C16 ==
    \A i \in 1..Len(messages) : messages[i].of = active

\* C17: once the fallback notice has been shown, the backend stays local, no
\* further generateSpeech call is made and the notice is not shown again.
FallbackIsPermanent_C17 ==
    [][notices > 0 => (voiceType' = "local" /\ speech' \subseteq speech /\ notices' = notices)]_vars

\* C18: the synthesizer and the buffer source never play at the same time.
OneUtterance_C18 ==
    Cardinality(synth) + Cardinality(source) <= 1

\* C19: nothing that plays was requested for a pair that has been left.
NoUtteranceOfLeftPair_C19 ==
    \A u \in synth \cup source : u.of = active

\* C20: the step that handles a rejected turn request leaves the matching
\* model-role apology as the last message of the transcript and the loading
\* flag cleared.
FailedTurnApologises_C20 ==
    [][\A t \in turns, isQuota \in BOOLEAN :
          TurnRejects(t, isQuota)
              => /\ messages' # <<>>
                 /\ messages'[Len(messages')].role = "model"
                 /\ messages'[Len(messages')].text = Apology(t.kind, isQuota)
                 /\ ~isLoading']_vars

FollowupApology_C20 ==
    /\ Len(messages) >= 2
    /\ messages[Len(messages) - 1].role = "user"
    /\ messages[Len(messages)].text = Apology("followup", TRUE)
    /\ ~isLoading

(***************************************************************************)
(* Step changes of App.  handleStepChange sets the step, posts the new     *)
(* step as completed, and after that response asks for the catalog and     *)
(* the progress rows together; when both have answered it stores them.     *)
(* A call waiting for a response is a record of `calls`:                   *)
(*   posted       the response of POST /api/progress has arrived           *)
(*   coursesRes   the body of the GET /api/courses response, once answered *)
(*   progressRes  the body of the GET /api/progress response, once answered *)
(* The server handles one request at a time; the calls of the client       *)
(* interleave at their awaits.                                             *)
(***************************************************************************)
MaxCalls == 2

stepChange(id, lesson_id, step) ==
    [id |-> id, lesson_id |-> lesson_id, step |-> step, posted |-> FALSE,
     coursesRes |-> {}, progressRes |-> {}]

\* App.handleStepChange up to its first await
onStepChange(step) ==
    /\ active' = <<active[1], step>>
    /\ IF active[1] # Undefined
       THEN /\ calls' = calls \cup {stepChange(ncalls + 1, active[1], step)}
            /\ ncalls' = ncalls + 1
       ELSE UNCHANGED <<calls, ncalls>>
    /\ UNCHANGED <<viewCourses, viewProgress>>
    /\ UNCHANGED <<userCode, voiceEnabled, messages, isLoading, voiceType, showVoiceToast,
                   notices, turns, speech, synth, source, nturns, isSpeaking,
                   speakingMessageId, ended>>
    /\ UNCHANGED <<server, runner, retry>>

\* steps.indexOf(step), counted from 1
indexOf(step) == CHOOSE i \in 1..Len(steps) : steps[i] = step

nextIdxWrapping(step) == (indexOf(step) % Len(steps)) + 1

nextIdx(step) == indexOf(step) + 1

\* the Next Step button
NextStep ==
    IF nextIdx(active[2]) <= Len(steps)
    THEN onStepChange(steps[nextIdx(active[2])])
    ELSE UNCHANGED vars

\* the refresh requests go out once the write has been answered
MayReadAlways(c) == TRUE

MayRead(c) == c.posted

\* the server handles the POST of call c and the client receives the answer
ProgressWritten(c) ==
    /\ c \in calls
    /\ ~c.posted
    /\ PostProgress(c.lesson_id, c.step, "completed")
    /\ calls' = (calls \ {c}) \cup {[c EXCEPT !.posted = TRUE]}
    /\ UNCHANGED <<nreq, recorded, ncalls, viewCourses, viewProgress>>
    /\ UNCHANGED <<runner, panel, retry>>

\* the server handles GET /api/courses of call c
CoursesRead(c) ==
    /\ c \in calls
    /\ MayRead(c)
    /\ c.coursesRes = {}
    /\ GetCourses
    /\ calls' = (calls \ {c})
                  \cup {[c EXCEPT !.coursesRes = {CoursesView(courses, modules, lessons, step_progress)}]}
    /\ UNCHANGED <<nreq, recorded, ncalls, viewCourses, viewProgress>>
    /\ UNCHANGED <<runner, panel, retry>>

\* the server handles GET /api/progress of call c
ProgressRead(c) ==
    /\ c \in calls
    /\ MayRead(c)
    /\ c.progressRes = {}
    /\ GetProgress
    /\ calls' = (calls \ {c}) \cup {[c EXCEPT !.progressRes = {step_progress}]}
    /\ UNCHANGED <<nreq, recorded, ncalls, viewCourses, viewProgress>>
    /\ UNCHANGED <<runner, panel, retry>>

\* both answers are in: setCourses, setStepProgress
Refreshed(c) ==
    /\ c \in calls
    /\ c.coursesRes # {}
    /\ c.progressRes # {}
    /\ viewCourses' = (CHOOSE v \in c.coursesRes : TRUE)
    /\ viewProgress' = (CHOOSE v \in c.progressRes : TRUE)
    /\ calls' = calls \ {c}
    /\ UNCHANGED ncalls
    /\ UNCHANGED <<server, runner, panel, retry>>

\* the course another client saves meanwhile
SavedCourse == CourseBody("Algorithms", "d", <<0>>, "absent", "absent", "python")

\* App after fetchData, with lesson l1 selected
InitApp ==
    /\ FreshServer
    /\ NoRetry
    /\ NoCodeIDE
    /\ active = <<"l1", "explanation">>
    /\ userCode = ExampleCode
    /\ voiceEnabled = TRUE
    /\ messages = <<>>
    /\ isLoading = FALSE
    /\ voiceType = "local"
    /\ showVoiceToast = FALSE
    /\ notices = 0
    /\ turns = {}
    /\ speech = {}
    /\ synth = {}
    /\ source = {}
    /\ nturns = 0
    /\ isSpeaking = FALSE
    /\ speakingMessageId = {}
    /\ ended = {}
    /\ calls = {}
    /\ ncalls = 0
    /\ viewCourses = CoursesView(courses, modules, lessons, step_progress)
    /\ viewProgress = step_progress

NextApp ==
    \/ \E step \in NamedSteps : ncalls < MaxCalls /\ onStepChange(step)
    \/ ncalls < MaxCalls /\ NextStep
    \/ \E c \in calls : ProgressWritten(c)
    \/ \E c \in calls : CoursesRead(c)
    \/ \E c \in calls : ProgressRead(c)
    \/ \E c \in calls : Refreshed(c)
    \/ PostCourses(SavedCourse)

SpecApp == InitApp /\ [][NextApp]_vars

\* C21: a refresh read of a step change is answered only after the
\* progress write of that step change has been answered.
WriteBeforeRefresh_C21 ==
    \A c \in calls : (c.coursesRes # {} \/ c.progressRes # {}) => c.posted

RefreshAfterWrite_C21 ==
    \E c \in calls : c.posted /\ c.coursesRes # {} /\ c.progressRes # {}
                     /\ req.op = "GET /api/progress"

(***************************************************************************)
(* C22: the step is always one of the five stages; Next Step moves to the  *)
(* stage that follows the current one, and at the last stage it changes    *)
(* nothing and sends nothing.                                              *)
(***************************************************************************)
Following == {<<steps[i], steps[i + 1]>> : i \in 1..(Len(steps) - 1)}

StepSequence_C22 ==
    /\ [](active[2] \in NamedSteps)
    /\ [][NextStep => IF active[2] = steps[Len(steps)]
                      THEN UNCHANGED <<active, calls, ncalls, step_progress>>
                      ELSE <<active[2], active'[2]>> \in Following]_vars

LastStageReached_C22 ==
    /\ active[2] = steps[Len(steps)]
    /\ \E c1, c2 \in calls :
          /\ c1.id + 1 = c2.id
          /\ <<c1.step, c2.step>> \in Following
          /\ c2.step = steps[Len(steps)]

(***************************************************************************)
(* withRetry of the gemini service: the loop that wraps every call of the  *)
(* AI service.  `retry` holds the locals of the call under way:            *)
(*   retries, delay0  the arguments                                        *)
(*   i, delay         the loop counter and the current delay               *)
(*   invoked          how often fn was called                              *)
(*   waits            the delays waited so far                             *)
(*   state            "calling" (fn awaited), "waiting" (timer awaited),   *)
(*                    "returned" or "thrown"                               *)
(*   lastError        what the latest failed attempt threw                 *)
(*   error            what withRetry threw                                 *)
(***************************************************************************)
RetriesInputs == {1, 2, 3}

DelayInputs == {1000, 1500}

NoError == [message |-> Undefined, status |-> Undefined]

\* what fn may throw
Errors == {[message |-> "got status: 429 Too Many Requests", status |-> Undefined],
           [message |-> "You exceeded your current quota", status |-> Undefined],
           [message |-> "exhausted", status |-> "RESOURCE_EXHAUSTED"],
           [message |-> "fetch failed", status |-> Undefined],
           [message |-> "got status: 500 Internal Server Error", status |-> Undefined],
           [message |-> Undefined, status |-> "INTERNAL"]}

\* String.prototype.includes on the messages above
includes(message, needle) ==
    <<message, needle>> \in {<<"got status: 429 Too Many Requests", "429">>,
                             <<"You exceeded your current quota", "quota">>}

isQuotaErrorAny(error) == TRUE

isQuotaError(error) ==
    \/ error.message # Undefined /\ includes(error.message, "429")
    \/ error.message # Undefined /\ includes(error.message, "quota")
    \/ error.status = "RESOURCE_EXHAUSTED"

nextDelaySame(delay) == delay

nextDelay(delay) == delay * 2

\* await fn() resolves
AttemptResolves ==
    /\ retry.state = "calling"
    /\ retry' = [retry EXCEPT !.invoked = @ + 1, !.state = "returned"]
    /\ UNCHANGED <<server, runner, panel, app>>

\* await fn() rejects with error
AttemptRejects(error) ==
    /\ retry.state = "calling"
    /\ IF isQuotaError(error) /\ retry.i < retry.retries - 1
       THEN retry' = [retry EXCEPT !.invoked = @ + 1, !.lastError = error,
                                   !.state = "waiting", !.waits = Append(@, retry.delay)]
       ELSE retry' = [retry EXCEPT !.invoked = @ + 1, !.lastError = error,
                                   !.state = "thrown", !.error = error]
    /\ UNCHANGED <<server, runner, panel, app>>

\* the timer of the wait fires: delay *= 2; continue
TimerFires ==
    /\ retry.state = "waiting"
    /\ retry' = [retry EXCEPT !.delay = nextDelay(@), !.i = @ + 1, !.state = "calling"]
    /\ UNCHANGED <<server, runner, panel, app>>

InitRetry ==
    /\ FreshServer
    /\ NoCodeIDE
    /\ NoInstructorPanel
    /\ NoStepChange
    /\ \E retries \in RetriesInputs, delay \in DelayInputs :
          retry = [retries |-> retries, delay0 |-> delay, i |-> 0, delay |-> delay,
                   invoked |-> 0, waits |-> <<>>, state |-> "calling",
                   lastError |-> NoError, error |-> NoError]

NextRetry ==
    \/ AttemptResolves
    \/ \E error \in Errors : AttemptRejects(error)
    \/ TimerFires

SpecRetry == InitRetry /\ [][NextRetry]_vars

RECURSIVE Doubled(_, _)
Doubled(d, k) == IF k = 0 THEN d ELSE 2 * Doubled(d, k - 1)

\* C23: fn is invoked at most `retries` times, the k-th wait is the initial
\* delay doubled k-1 times, and what withRetry throws after the last attempt
\* is the error of that attempt.
BoundedBackoff_C23 ==
    /\ retry.invoked <= retry.retries
    /\ Len(retry.waits) < retry.retries
    /\ \A k \in 1..Len(retry.waits) : retry.waits[k] = Doubled(retry.delay0, k - 1)
    /\ retry.state = "thrown" => retry.error = retry.lastError

AllAttemptsQuota_C23 ==
    /\ retry.state = "thrown"
    /\ retry.retries = 3
    /\ retry.invoked = 3
    /\ retry.waits = <<1000, 2000>>
    /\ retry.error.status = "RESOURCE_EXHAUSTED"

\* C24: a wait is started only after a quota-class failure; an attempt that
\* fails with another error makes withRetry throw that error in the same
\* step, without a wait, and nothing is invoked after a throw.
RateLimitErrors ==
    {error \in Errors : \/ error.status = "RESOURCE_EXHAUSTED"
                        \/ error.message = "got status: 429 Too Many Requests"
                        \/ error.message = "You exceeded your current quota"}

RuntimeLoadedOnce_C25 == loads <= 1

(***************************************************************************)
(* SpecWalk: lesson l1 has just been selected and the learner only uses    *)
(* the Next Step button.                                                   *)
(***************************************************************************)
NextWalk ==
    \/ NextStep
    \/ \E c \in calls : ProgressWritten(c)
    \/ \E c \in calls : CoursesRead(c)
    \/ \E c \in calls : ProgressRead(c)
    \/ \E c \in calls : Refreshed(c)

SpecWalk == InitApp /\ [][NextWalk]_vars

\* Sidebar.getLessonStatus over the stepProgress state P
getLessonStatus(P, lessonId) ==
    LET completedSteps == Cardinality({i \in 1..Len(P) : P[i].lesson_id = lessonId
                                                         /\ P[i].status = "completed"})
    IN  IF completedSteps = 5 THEN "completed"
        ELSE IF completedSteps > 0 THEN "in_progress"
        ELSE "not_started"

CourseSizes == {1, 2, 39, 40, 41}

LargeLessons(n) ==
    [i \in 1..n |-> [id |-> "b" \o ToText(i), module_id |-> "mb", title |-> "Lesson",
                     language |-> "python"]]

LargeRows(k) ==
    [j \in 1..k |-> [id |-> j, lesson_id |-> "b" \o ToText(((j - 1) \div Len(steps)) + 1),
                     step_id |-> steps[((j - 1) % Len(steps)) + 1], status |-> "completed"]]

InitLarge ==
    /\ courses = SeedCourses \o << [id |-> "cb", title |-> "Bootcamp"] >>
    /\ modules = SeedModules \o << [id |-> "mb", course_id |-> "cb", title |-> "All lessons"] >>
    /\ \E n \in CourseSizes :
          /\ lessons = SeedLessons \o LargeLessons(n)
          /\ \E k \in 0..(n * Len(steps)) : step_progress = LargeRows(k)
    /\ settings = <<>>
    /\ now = 1000
    /\ req = NoRequest
    /\ resp = NoResponse
    /\ nreq = 0
    /\ recorded = {}
    /\ NoLessonView

NextLarge ==
    \/ GetCourses /\ Uncounted
    \/ GetProgress /\ Uncounted

SpecLarge == InitLarge /\ [][NextLarge]_vars

\* how the dashboard and the course card classify a course by its progress
Classified(view, i, n, k) ==
    /\ view[i].progress = 100 <=> k = n * StepsPerLesson
    /\ view[i].progress = 0 <=> k = 0

\* C27 as stated: for every course with at least one lesson, the progress
\* GET /api/courses reports is 100 exactly when all its steps are completed
\* and 0 exactly when none is.
NeverMisclassified_C27 ==
    IsGetCourses(req) =>
        \A i \in 1..Len(courses) :
            LET n == Cardinality(CourseLessonIds(courses[i].id))
                k == Cardinality(CompletedRows(courses[i].id))
            IN  n >= 1 => Classified(resp.courses, i, n, k)

\* C27 amended: the same for every course of 1 to 39 lessons, that is as
\* long as one step weighs more than half a percent (lessons * 5 < 200).
SmallNeverMisclassified_C27 ==
    IsGetCourses(req) =>
        \A i \in 1..Len(courses) :
            LET n == Cardinality(CourseLessonIds(courses[i].id))
                k == Cardinality(CompletedRows(courses[i].id))
            IN  (n >= 1 /\ n * StepsPerLesson < 200) => Classified(resp.courses, i, n, k)

AlmostComplete39_C27 ==
    /\ IsGetCourses(req)
    /\ Cardinality(CourseLessonIds("cb")) = 39
    /\ Cardinality(CompletedRows("cb")) = 194
    /\ resp.courses[3].progress = 99

\* C28: a POST /api/courses that is answered with an error leaves no course,
\* module or lesson row of that request behind: the three tables are as they
\* were before the request.
AllOrNothing_C28 ==
    [][(req'.op = "POST /api/courses" /\ resp' = Error500)
          => UNCHANGED <<courses, modules, lessons>>]_vars

\* the client's courses and stepProgress show what the store holds
ViewCurrent ==
    /\ viewCourses = CoursesView(courses, modules, lessons, step_progress)
    /\ viewProgress = step_progress

\* C29: applying the refresh responses of a step change never replaces a view
\* that shows the store's current state by one read before a later write.
NoStaleOverwrite_C29 ==
    [][(\E c \in calls : Refreshed(c)) => (ViewCurrent => ViewCurrent')]_vars

\* C30: whenever an utterance is playing, isSpeaking is true and
\* speakingMessageId identifies it; in particular the onended callback of a
\* source stopped for a new utterance does not clear the new one's flags.
FlagsTrackPlayback_C30 ==
    \A u \in synth \cup source : isSpeaking /\ speakingMessageId = {u.id}

====
